---------------------------- MODULE Spec2Model ----------------------------
(***************************************************************************)
(* Model of seat_monitor_app.js: the SeatMonitor poll loop (start, stop,   *)
(* checkSoldSeats, fetchData, the scheduleNext timer chain), the command   *)
(* line (parseArguments) and main() with its signal handlers.              *)
(*                                                                         *)
(* One step of the model is one event-loop task of the Node.js process     *)
(* together with the promise continuations (microtasks) it triggers: a     *)
(* call of start() or stop(), a timer firing, an event of an HTTP request, *)
(* a termination signal.  Every start() that passes its isRunning guard    *)
(* opens a "chain": the async continuation of that start() call and the    *)
(* scheduleNext closure it creates.  A chain is at any time either         *)
(* awaiting the check it started or holding one armed timer.               *)
(***************************************************************************)
EXTENDS Integers, Sequences, FiniteSets

\* Number of chains (async start() continuations) that may be alive at once.
MaxChains == 2
\* Longest seats array of a response document in the monitor specification.
MaxSeats == 1
\* Largest metric of the delta-annotation specification.
MaxMetric == 11
\* Longest argument list of the command-line specification.
MaxArgs == 3

\* The absent value of timeoutId, previousSoldCount and the exit status.
null == -1

Chains == 1..MaxChains

VARIABLES
  isRunning,          \* this.isRunning
  timeoutId,          \* this.timeoutId: null or the handle stored last
  previousSoldCount,  \* this.previousSoldCount: null or a number
  chain,              \* chain[c]: "free" | "sent" | "receiving" | "aborted" | "timer"
  exitCode,           \* null while the process lives, else its exit status
  late,               \* a request destroyed by a timeout has events left to emit
  out,                \* the console lines written by the last step
  lastOp,             \* the event handled by the last step
  everFired,          \* a scheduled timer has fired since construction
  cleanStop,          \* stop() was called before any timer fired; no start() since
  lastSold,           \* metric of the most recent 'Sold seats' line, or null
  skipped,            \* "pending": a cycle has failed since the last 'Sold seats' line;
                      \* "yes"/"no": whether one failed between the last two such lines
  argv,               \* process.argv.slice(2), each argument a sequence of characters
  monitor,            \* main() has constructed the SeatMonitor
  intervalMinutes,    \* this.intervalMinutes
  intervalMs          \* this.intervalMs

progVars == <<isRunning, timeoutId, previousSoldCount, chain, exitCode>>
cliVars == <<argv, monitor, intervalMinutes, intervalMs>>
vars == <<isRunning, timeoutId, previousSoldCount, chain, exitCode, late,
          out, lastOp, everFired, cleanStop, lastSold, skipped,
          argv, monitor, intervalMinutes, intervalMs>>

InFlight == {c \in Chains : chain[c] \in {"sent", "receiving", "aborted"}}
Pending == {c \in Chains : chain[c] = "timer"}

-----------------------------------------------------------------------------
(* Strings are sequences of one-character strings. *)

Digit(d) == CASE d = 0 -> "0" [] d = 1 -> "1" [] d = 2 -> "2" [] d = 3 -> "3"
              [] d = 4 -> "4" [] d = 5 -> "5" [] d = 6 -> "6" [] d = 7 -> "7"
              [] d = 8 -> "8" [] d = 9 -> "9"

RECURSIVE NatToString(_)
NatToString(n) == IF n < 10 THEN <<Digit(n)>>
                  ELSE NatToString(n \div 10) \o <<Digit(n % 10)>>

\* Number-to-string conversion of a template literal, `${change}`.
NumberToString(n) == IF n < 0 THEN <<"-">> \o NatToString(0 - n) ELSE NatToString(n)

NoChange == <<"n", "o", " ", "c", "h", "a", "n", "g", "e">>

changeText_ZeroAsPlus(change) ==
  IF change >= 0 THEN <<"(", "+">> \o NumberToString(change) \o <<")">>
  ELSE <<"(">> \o NumberToString(change) \o <<")">>

\* line 61
changeText(change) ==
  IF change > 0 THEN <<"(", "+">> \o NumberToString(change) \o <<")">>
  ELSE IF change < 0 THEN <<"(">> \o NumberToString(change) \o <<")">>
  ELSE <<"(">> \o NoChange \o <<")">>

-----------------------------------------------------------------------------
(* Response bodies, JSON.parse and the JMESPath query. *)

Status == {"SOLD", "FREE"}

SeqsUpTo(S, n) == UNION {[1..k -> S] : k \in 0..n}

\* A body is text that is not JSON, or a JSON document, with or without a
\* seats array; a seat record is represented by its element at index 3.
Body(json, hasSeats, seats) == [json |-> json, hasSeats |-> hasSeats, seats |-> seats]

Bodies == {Body(FALSE, FALSE, <<>>), Body(TRUE, FALSE, <<>>)}
          \cup {Body(TRUE, TRUE, s) : s \in SeqsUpTo(Status, MaxSeats)}

Ok(v) == [ok |-> TRUE, value |-> v, message |-> "none"]
Err(m) == [ok |-> FALSE, value |-> 0, message |-> m]

\* lines 30-35: JSON.parse(data) resolves the promise or rejects it
JSONParse(body) == IF body.json THEN Ok(body) ELSE Err("Failed to parse JSON")

\* line 57: length(seats[?@[3] == `SOLD`]); length(null) is a type error
search(doc) ==
  IF doc.hasSeats
  THEN Ok(Cardinality({i \in DOMAIN doc.seats : doc.seats[i] = "SOLD"}))
  ELSE Err("invalid-type")

-----------------------------------------------------------------------------
(* Console lines. *)

Line(kind) == [kind |-> kind, count |-> 0, delta |-> <<>>, message |-> "none"]
SoldLine(n, d) == [kind |-> "sold", count |-> n, delta |-> d, message |-> "none"]
ErrorLine(m) == [kind |-> "error", count |-> 0, delta |-> <<>>, message |-> m]

\* lines 81-85: the five lines of the startup banner
Banner == <<Line("banner"), Line("url"), Line("interval"), Line("expression"), Line("hint")>>

\* An event: its name, the chain it belongs to (0: none) and, for the end of a
\* response, the body received.
NoBody == [json |-> FALSE, hasSeats |-> FALSE, seats |-> <<>>]
Op(name, c, body) == [op |-> name, c |-> c, body |-> body]

-----------------------------------------------------------------------------
(* checkSoldSeats, from the point where the promise of fetchData settles. *)

Returned(prev, lines) == [thrown |-> FALSE, prev |-> prev, lines |-> lines]
Thrown(prev, lines) == [thrown |-> TRUE, prev |-> prev, lines |-> lines]

catchError_Rethrow(prev, message) == Thrown(prev, <<>>)

catchError_Reset(prev, message) == Returned(null, <<ErrorLine(message)>>)

\* lines 69-71: the error is logged and swallowed
catchError(prev, message) == Returned(prev, <<ErrorLine(message)>>)

report_DeltaFromZero(prev, soldCount) ==
  Returned(soldCount,
           <<SoldLine(soldCount, changeText(soldCount - (IF prev # null THEN prev ELSE 0)))>>)

report_NoStore(prev, soldCount) ==
  IF prev # null
  THEN Returned(prev, <<SoldLine(soldCount, changeText(soldCount - prev))>>)
  ELSE Returned(prev, <<SoldLine(soldCount, <<>>)>>)

\* lines 59-67: the 'Sold seats' line and the store of the metric
report(prev, soldCount) ==
  IF prev # null
  THEN Returned(soldCount, <<SoldLine(soldCount, changeText(soldCount - prev))>>)
  ELSE Returned(soldCount, <<SoldLine(soldCount, <<>>)>>)

\* lines 56-71, after the await: fetched is the settled promise of fetchData
checkSoldSeats(prev, fetched) ==
  IF ~fetched.ok THEN catchError(prev, fetched.message)
  ELSE LET soldCount == search(fetched.value)
       IN IF ~soldCount.ok THEN catchError(prev, soldCount.message)
          ELSE report(prev, soldCount.value)

-----------------------------------------------------------------------------
(* The timer chain. *)

scheduleNext_Unguarded(c) ==
  /\ chain' = [chain EXCEPT ![c] = "timer"]
  /\ timeoutId' = c

\* lines 91-98: arm the next one-shot timer if the monitor is still running
scheduleNext(c) ==
  IF isRunning
  THEN /\ chain' = [chain EXCEPT ![c] = "timer"]
       /\ timeoutId' = c
  ELSE /\ chain' = [chain EXCEPT ![c] = "free"]
       /\ UNCHANGED timeoutId

\* The promise of fetchData settles in chain c: checkSoldSeats runs to its end
\* and the awaiting continuation (line 88 then 100, or line 94 then 95) runs
\* scheduleNext.  A rejected start() ends the process (lines 186-189), as
\* does the unhandled rejection of a rejected timer callback.
Settle(c, fetched) ==
  LET r == checkSoldSeats(previousSoldCount, fetched)
  IN /\ out' = r.lines
     /\ previousSoldCount' = r.prev
     /\ lastSold' = IF r.lines # <<>> /\ r.lines[1].kind = "sold"
                    THEN r.lines[1].count ELSE lastSold
     /\ skipped' = IF r.lines # <<>> /\ r.lines[1].kind = "sold"
                   THEN (IF skipped = "pending" THEN "yes" ELSE "no")
                   ELSE "pending"
     /\ IF r.thrown
        THEN /\ exitCode' = 1
             /\ chain' = [chain EXCEPT ![c] = "free"]
             /\ UNCHANGED timeoutId
        ELSE /\ scheduleNext(c)
             /\ UNCHANGED exitCode
     /\ UNCHANGED <<isRunning, everFired, cleanStop>>

-----------------------------------------------------------------------------
(* fetchData: the events of the HTTP request of chain c. *)

Alive == exitCode = null

\* lines 22-23: the response callback runs, the body starts to arrive
ResponseArrives(c) ==
  /\ Alive
  /\ chain[c] = "sent"
  /\ chain' = [chain EXCEPT ![c] = "receiving"]
  /\ out' = <<>>
  /\ lastOp' = Op("response", c, NoBody)
  /\ UNCHANGED <<late, cliVars>>
  /\ UNCHANGED <<isRunning, timeoutId, previousSoldCount, exitCode,
                 everFired, cleanStop, lastSold, skipped>>

\* lines 29-36: 'end' of the response, with the body collected by lines 25-27
ResponseEnd(c, body) ==
  /\ Alive
  /\ chain[c] = "receiving"
  /\ Settle(c, JSONParse(body))
  /\ lastOp' = Op("end", c, body)
  /\ UNCHANGED <<late, cliVars>>

\* lines 39-41: 'error' of the request
RequestError(c) ==
  /\ Alive
  /\ chain[c] \in {"sent", "receiving"}
  /\ Settle(c, Err("Request failed"))
  /\ lastOp' = Op("error", c, NoBody)
  /\ UNCHANGED <<late, cliVars>>

\* lines 43-46: the socket has been idle for 10 seconds; request.destroy()
\* may make the request emit one more event later
RequestTimeout(c) ==
  /\ Alive
  /\ chain[c] \in {"sent", "receiving"}
  /\ Settle(c, Err("Request timeout"))
  /\ lastOp' = Op("timeout", c, NoBody)
  /\ late' \in {late, TRUE}
  /\ UNCHANGED cliVars

rejectSettled_Logs(message) == <<ErrorLine(message)>>

\* lines 32, 34, 40: resolve or reject of a promise that is already settled
\* has no effect; nothing resumes checkSoldSeats and no line is written
rejectSettled(message) == <<>>

\* An event of a request destroyed by line 44: the 'error' raised by the
\* destroy, or a response that was on its way; more may follow
LateEvent ==
  /\ Alive
  /\ late
  /\ late' \in BOOLEAN
  /\ UNCHANGED cliVars
  /\ out' = rejectSettled("Request failed")
  /\ lastOp' = Op("late", 0, NoBody)
  /\ UNCHANGED <<isRunning, timeoutId, previousSoldCount, chain, exitCode,
                 everFired, cleanStop, lastSold, skipped>>

\* The connection closes before the end of the body: the response emits
\* 'aborted' and 'close', for which lines 25-36 register no handler, and
\* the closed socket has no timeout left; the promise never settles.
ResponseAborted(c) ==
  /\ Alive
  /\ chain[c] = "receiving"
  /\ chain' = [chain EXCEPT ![c] = "aborted"]
  /\ out' = <<>>
  /\ lastOp' = Op("aborted", c, NoBody)
  /\ UNCHANGED <<late, cliVars>>
  /\ UNCHANGED <<isRunning, timeoutId, previousSoldCount, exitCode,
                 everFired, cleanStop, lastSold, skipped>>

-----------------------------------------------------------------------------
(* start, stop, the timer callback and the signal handlers. *)

FreeChain == CHOOSE c \in Chains : chain[c] = "free" /\ \A d \in Chains : chain[d] = "free" => c <= d

start_NoGuard ==
  /\ \E c \in Chains : chain[c] = "free"
  /\ isRunning' = TRUE
  /\ chain' = [chain EXCEPT ![FreeChain] = "sent"]
  /\ out' = Banner \o <<Line("checking")>>
  /\ cleanStop' = FALSE
  /\ UNCHANGED <<timeoutId, previousSoldCount, exitCode, everFired, lastSold, skipped>>

\* lines 74-88: start() up to the await of the initial check
start ==
  IF isRunning
  THEN /\ out' = <<Line("already")>>
       /\ UNCHANGED <<isRunning, timeoutId, previousSoldCount, chain, exitCode,
                      everFired, cleanStop, lastSold, skipped>>
  ELSE /\ \E c \in Chains : chain[c] = "free"
       /\ isRunning' = TRUE
       /\ chain' = [chain EXCEPT ![FreeChain] = "sent"]
       /\ out' = Banner \o <<Line("checking")>>
       /\ cleanStop' = FALSE
       /\ UNCHANGED <<timeoutId, previousSoldCount, exitCode, everFired, lastSold, skipped>>

\* line 110: clearTimeout of a handle; a fired or cleared timer is left alone
clearTimeout(ch, id) == IF ch[id] = "timer" THEN [ch EXCEPT ![id] = "free"] ELSE ch

Stopped(running, id, ch, lines) ==
  [isRunning |-> running, timeoutId |-> id, chain |-> ch, out |-> lines]

stop_NoGuard ==
  Stopped(FALSE, null,
          IF timeoutId # null THEN clearTimeout(chain, timeoutId) ELSE chain,
          <<Line("stopped")>>)

\* lines 103-114: the fields and the timers after stop(), and what it logs
stop ==
  IF ~isRunning
  THEN Stopped(isRunning, timeoutId, chain, <<>>)
  ELSE Stopped(FALSE, null,
               IF timeoutId # null THEN clearTimeout(chain, timeoutId) ELSE chain,
               <<Line("stopped")>>)

\* A call of start()
Start ==
  /\ Alive
  /\ start
  /\ lastOp' = Op("start", 0, NoBody)
  /\ UNCHANGED <<late, cliVars>>

\* A call of stop()
Stop ==
  /\ Alive
  /\ isRunning' = stop.isRunning
  /\ timeoutId' = stop.timeoutId
  /\ chain' = stop.chain
  /\ out' = stop.out
  /\ cleanStop' = ~everFired
  /\ lastOp' = Op("stop", 0, NoBody)
  /\ UNCHANGED <<previousSoldCount, exitCode, late, everFired, lastSold, skipped, cliVars>>

\* lines 93-94: the timer of chain c fires; checkSoldSeats runs to its await
TimerFires(c) ==
  /\ Alive
  /\ chain[c] = "timer"
  /\ chain' = [chain EXCEPT ![c] = "sent"]
  /\ out' = <<Line("checking")>>
  /\ everFired' = TRUE
  /\ lastOp' = Op("timer", c, NoBody)
  /\ UNCHANGED <<late, cliVars>>
  /\ UNCHANGED <<isRunning, timeoutId, previousSoldCount, exitCode, cleanStop, lastSold, skipped>>

Signal_NoExit ==
  /\ Alive
  /\ monitor
  /\ isRunning' = stop.isRunning
  /\ timeoutId' = stop.timeoutId
  /\ out' = stop.out
  /\ chain' = stop.chain
  /\ cleanStop' = ~everFired
  /\ lastOp' = Op("signal", 0, NoBody)
  /\ UNCHANGED <<previousSoldCount, exitCode, late, everFired, lastSold, skipped, cliVars>>

\* lines 175-183: SIGINT or SIGTERM; stop(), then process.exit(0), which
\* ends the process with its open requests and armed timers
Signal ==
  /\ Alive
  /\ monitor
  /\ isRunning' = stop.isRunning
  /\ timeoutId' = stop.timeoutId
  /\ out' = stop.out
  /\ chain' = [c \in Chains |-> "free"]
  /\ exitCode' = 0
  /\ late' = FALSE
  /\ cleanStop' = ~everFired
  /\ UNCHANGED cliVars
  /\ lastOp' = Op("signal", 0, NoBody)
  /\ UNCHANGED <<previousSoldCount, everFired, lastSold, skipped>>

-----------------------------------------------------------------------------

(* The command line: JavaScript numbers, isNaN and parseFloat,             *)
(* parseArguments, the SeatMonitor constructor and main.                   *)

\* line 7
DEFAULT_INTERVAL == 5

\* A JavaScript number is NaN or the decimal fraction num / den, den a
\* power of ten.  Strings with an exponent part, a radix prefix or the
\* word Infinity are outside the domain of the conversions below.
NaN == [nan |-> TRUE, num |-> 0, den |-> 1]
Num(n, d) == [nan |-> FALSE, num |-> n, den |-> d]

\* x * k for an integer k; NaN * k is NaN
Times(x, k) == IF x.nan THEN NaN ELSE Num(x.num * k, x.den)

\* x <= 0; every comparison with NaN is false
LessOrEqualZero(x) == ~x.nan /\ x.num <= 0

IsDigit(ch) == ch \in {"0", "1", "2", "3", "4", "5", "6", "7", "8", "9"}

DigitOf(ch) == CASE ch = "0" -> 0 [] ch = "1" -> 1 [] ch = "2" -> 2 [] ch = "3" -> 3
                 [] ch = "4" -> 4 [] ch = "5" -> 5 [] ch = "6" -> 6 [] ch = "7" -> 7
                 [] ch = "8" -> 8 [] ch = "9" -> 9

RECURSIVE TrimStart(_)
TrimStart(s) == IF s # <<>> /\ s[1] = " " THEN TrimStart(Tail(s)) ELSE s

RECURSIVE TrimEnd(_)
TrimEnd(s) == IF s # <<>> /\ s[Len(s)] = " "
              THEN TrimEnd(SubSeq(s, 1, Len(s) - 1)) ELSE s

RECURSIVE DigitRun(_)
\* The length of the longest prefix of s made of digits.
DigitRun(s) == IF s # <<>> /\ IsDigit(s[1]) THEN 1 + DigitRun(Tail(s)) ELSE 0

RECURSIVE DigitsValue(_)
DigitsValue(s) == IF s = <<>> THEN 0
                  ELSE 10 * DigitsValue(SubSeq(s, 1, Len(s) - 1)) + DigitOf(s[Len(s)])

RECURSIVE PowerOfTen(_)
PowerOfTen(n) == IF n = 0 THEN 1 ELSE 10 * PowerOfTen(n - 1)

\* The longest prefix of s that is a signed decimal literal (sign, digits,
\* an optional point and fraction digits; or a point and fraction digits):
\* its length, 0 if there is none, and its value.
DecimalPrefix(s) ==
  LET signed   == s # <<>> /\ s[1] \in {"+", "-"}
      body     == IF signed THEN Tail(s) ELSE s
      whole    == DigitRun(body)
      rest     == SubSeq(body, whole + 1, Len(body))
      point    == rest # <<>> /\ rest[1] = "."
      fraction == IF point THEN DigitRun(Tail(rest)) ELSE 0
      literal  == whole > 0 \/ fraction > 0
      digits   == SubSeq(body, 1, whole) \o SubSeq(rest, 2, fraction + 1)
      size     == DigitsValue(digits)
  IN IF literal
     THEN [len   |-> (IF signed THEN 1 ELSE 0) + whole
                     + (IF point THEN 1 + fraction ELSE 0),
           value |-> Num(IF signed /\ s[1] = "-" THEN 0 - size ELSE size,
                         PowerOfTen(fraction))]
     ELSE [len |-> 0, value |-> NaN]

\* Number(string): white space is trimmed on both sides, the empty string
\* is 0, and the rest must be a numeric literal as a whole
ToNumber(s) ==
  LET t == TrimEnd(TrimStart(s))
  IN IF t = <<>> THEN Num(0, 1)
     ELSE IF DecimalPrefix(t).len = Len(t) THEN DecimalPrefix(t).value
     ELSE NaN

\* line 131: the global isNaN converts its argument with Number()
isNaN(s) == ToNumber(s).nan

\* line 135: parseFloat skips leading white space and converts the longest
\* prefix that is a decimal literal; NaN if there is none
parseFloat(s) == DecimalPrefix(TrimStart(s)).value

LongHelp == <<"-", "-", "h", "e", "l", "p">>
ShortHelp == <<"-", "h">>
LongInterval == <<"-", "-", "i", "n", "t", "e", "r", "v", "a", "l">>
ShortInterval == <<"-", "i">>

IsHelp_LongOnly(arg) == arg = LongHelp

\* line 124
IsHelp(arg) == arg = LongHelp \/ arg = ShortHelp

\* line 129
IsInterval(arg) == arg = LongInterval \/ arg = ShortInterval

\* What parseArguments ends with: process.exit(code) after writing lines,
\* or the return of line 144.
Exited(code, lines) == [exit |-> code, intervalMinutes |-> NaN, out |-> lines]
Parsed(minutes) == [exit |-> null, intervalMinutes |-> minutes, out |-> <<>>]

RECURSIVE scanArguments(_, _, _)
\* lines 121-142: the loop from index i on, args being 1-based here
scanArguments(args, i, minutes) ==
  IF i > Len(args) THEN Parsed(minutes)
  ELSE IF IsHelp(args[i]) THEN Exited(0, <<Line("usage")>>)
  ELSE IF IsInterval(args[i])
       THEN IF i + 1 > Len(args) \/ args[i + 1] = <<>> \/ isNaN(args[i + 1])
            THEN Exited(1, <<Line("interval-not-numeric")>>)
            ELSE IF LessOrEqualZero(parseFloat(args[i + 1]))
            THEN Exited(1, <<Line("interval-not-positive")>>)
            ELSE scanArguments(args, i + 2, parseFloat(args[i + 1]))
  ELSE scanArguments(args, i + 1, minutes)

\* lines 117-145
parseArguments(args) == scanArguments(args, 1, Num(DEFAULT_INTERVAL, 1))

\* lines 12-14: the interval fields the constructor sets
SeatMonitor(minutes) ==
  [intervalMinutes |-> minutes, intervalMs |-> Times(Times(minutes, 60), 1000)]

\* lines 169-195: main() parses the arguments and, unless parseArguments has
\* ended the process, constructs the monitor, registers the signal handlers
\* and calls start()
Main ==
  /\ Alive
  /\ lastOp.op = "boot"
  /\ lastOp' = Op("main", 0, NoBody)
  /\ UNCHANGED <<argv, late>>
  /\ LET parsed == parseArguments(argv)
     IN IF parsed.exit # null
        THEN /\ exitCode' = parsed.exit
             /\ out' = parsed.out
             /\ UNCHANGED <<isRunning, timeoutId, previousSoldCount, chain,
                            everFired, cleanStop, lastSold, skipped,
                            monitor, intervalMinutes, intervalMs>>
        ELSE /\ monitor' = TRUE
             /\ intervalMinutes' = SeatMonitor(parsed.intervalMinutes).intervalMinutes
             /\ intervalMs' = SeatMonitor(parsed.intervalMinutes).intervalMs
             /\ start

-----------------------------------------------------------------------------

\* lines 12-18: the state after construction, with the default interval
Init ==
  /\ isRunning = FALSE
  /\ timeoutId = null
  /\ previousSoldCount = null
  /\ chain = [c \in Chains |-> "free"]
  /\ exitCode = null
  /\ late = FALSE
  /\ out = <<>>
  /\ lastOp = Op("new", 0, NoBody)
  /\ everFired = FALSE
  /\ cleanStop = FALSE
  /\ lastSold = null
  /\ skipped = "no"
  /\ argv = <<>>
  /\ monitor = TRUE
  /\ intervalMinutes = SeatMonitor(Num(DEFAULT_INTERVAL, 1)).intervalMinutes
  /\ intervalMs = SeatMonitor(Num(DEFAULT_INTERVAL, 1)).intervalMs

Next ==
  \/ Start
  \/ Stop
  \/ Signal
  \/ \E c \in Chains : TimerFires(c)
  \/ \E c \in Chains : ResponseArrives(c)
  \/ \E c \in Chains, body \in Bodies : ResponseEnd(c, body)
  \/ \E c \in Chains : RequestError(c)
  \/ \E c \in Chains : RequestTimeout(c)
  \/ \E c \in Chains : ResponseAborted(c)
  \/ LateEvent

Spec == Init /\ [][Next]_vars

\* A request of chain c comes to its end: 'end', 'error' or the timeout.
RequestSettles(c) ==
  \/ \E body \in Bodies : ResponseEnd(c, body)
  \/ RequestError(c)
  \/ RequestTimeout(c)

\* The event loop runs the callback of every armed timer that is not
\* cleared, and every open request meets one of the events that fetchData
\* listens for, the 10 second timeout of line 43 at the latest, unless the
\* connection is closed under it.
Fairness ==
  \A c \in Chains : WF_vars(TimerFires(c)) /\ WF_vars(RequestSettles(c))

FairSpec == Spec /\ Fairness

-----------------------------------------------------------------------------
(* The delta annotation over a wider range of metrics: a running monitor   *)
(* that has stored any metric up to MaxMetric, its timer just fired, polls *)
(* an endpoint whose documents hold up to MaxMetric sold seats.            *)

DeltaBodies == {Body(TRUE, TRUE, [i \in 1..k |-> "SOLD"]) : k \in 0..MaxMetric}

DeltaInit ==
  /\ isRunning = TRUE
  /\ timeoutId = 1
  /\ previousSoldCount \in 0..MaxMetric
  /\ chain = [c \in Chains |-> IF c = 1 THEN "sent" ELSE "free"]
  /\ exitCode = null
  /\ late = FALSE
  /\ out = <<Line("checking")>>
  /\ lastOp = Op("timer", 1, NoBody)
  /\ everFired = TRUE
  /\ cleanStop = FALSE
  /\ lastSold = previousSoldCount
  /\ skipped = "no"
  /\ argv = <<>>
  /\ monitor = TRUE
  /\ intervalMinutes = SeatMonitor(Num(DEFAULT_INTERVAL, 1)).intervalMinutes
  /\ intervalMs = SeatMonitor(Num(DEFAULT_INTERVAL, 1)).intervalMs

DeltaNext ==
  \/ \E c \in Chains : TimerFires(c)
  \/ \E c \in Chains : ResponseArrives(c)
  \/ \E c \in Chains, body \in DeltaBodies : ResponseEnd(c, body)

DeltaSpec == DeltaInit /\ [][DeltaNext]_vars

-----------------------------------------------------------------------------
(* The process from its start: main() runs on a list of up to MaxArgs      *)
(* arguments; the monitor it may construct then polls as above, with       *)
(* only the signal handlers calling stop().                                *)

Arguments ==
  {LongHelp, ShortHelp, LongInterval, ShortInterval,
   <<"0">>, <<"-", "3">>, <<"a", "b", "c">>, <<"0", ".", "5">>, <<" ">>}

\* Before main() has run there is no monitor: its fields hold the values
\* the constructor would give them, the interval fields NaN.
MainInit ==
  /\ isRunning = FALSE
  /\ timeoutId = null
  /\ previousSoldCount = null
  /\ chain = [c \in Chains |-> "free"]
  /\ exitCode = null
  /\ late = FALSE
  /\ out = <<>>
  /\ lastOp = Op("boot", 0, NoBody)
  /\ everFired = FALSE
  /\ cleanStop = FALSE
  /\ lastSold = null
  /\ skipped = "no"
  /\ argv \in SeqsUpTo(Arguments, MaxArgs)
  /\ monitor = FALSE
  /\ intervalMinutes = NaN
  /\ intervalMs = NaN

MainNext ==
  \/ Main
  \/ Signal
  \/ \E c \in Chains : TimerFires(c)
  \/ \E c \in Chains : ResponseArrives(c)
  \/ \E c \in Chains, body \in Bodies : ResponseEnd(c, body)
  \/ \E c \in Chains : RequestError(c)
  \/ \E c \in Chains : RequestTimeout(c)
  \/ \E c \in Chains : ResponseAborted(c)
  \/ LateEvent

MainSpec == MainInit /\ [][MainNext]_vars

-----------------------------------------------------------------------------
(* Vocabulary of the properties. *)

\* Chains whose HTTP request is open.
Requests == {c \in Chains : chain[c] \in {"sent", "receiving"}}

SoldSeats(body) == Cardinality({i \in DOMAIN body.seats : body.seats[i] = "SOLD"})

\* The event is the end of a cycle whose fetch, parse and query all succeed.
Succeeds(e) == e.op = "end" /\ e.body.json /\ e.body.hasSeats

\* The event is the end of a cycle by a transport error, a timeout, a parse
\* error or a query-evaluation error.
Fails(e) == \/ e.op \in {"error", "timeout"}
            \/ e.op = "end" /\ ~(e.body.json /\ e.body.hasSeats)

DigitValue(ch) == CASE ch = "0" -> 0 [] ch = "1" -> 1 [] ch = "2" -> 2 [] ch = "3" -> 3
                    [] ch = "4" -> 4 [] ch = "5" -> 5 [] ch = "6" -> 6 [] ch = "7" -> 7
                    [] ch = "8" -> 8 [] ch = "9" -> 9 [] OTHER -> -1

RECURSIVE Decimal(_)
\* The value of a decimal numeral, -1 if the text is not one.
Decimal(t) ==
  IF t = <<>> \/ DigitValue(t[Len(t)]) < 0 THEN -1
  ELSE IF Len(t) = 1 THEN DigitValue(t[1])
  ELSE LET high == Decimal(SubSeq(t, 1, Len(t) - 1))
       IN IF high <= 0 THEN -1 ELSE 10 * high + DigitValue(t[Len(t)])

\* t is "(" sign numeral ")" for the positive number n.
IsSigned(t, sign, n) ==
  /\ Len(t) >= 4
  /\ t[1] = "(" /\ t[2] = sign /\ t[Len(t)] = ")"
  /\ n > 0
  /\ Decimal(SubSeq(t, 3, Len(t) - 1)) = n

\* t is the delta annotation the specification gives for the change n.
IsAnnotation(t, n) ==
  IF n > 0 THEN IsSigned(t, "+", n)
  ELSE IF n < 0 THEN IsSigned(t, "-", 0 - n)
  ELSE t = <<"(", "n", "o", " ", "c", "h", "a", "n", "g", "e", ")">>

-----------------------------------------------------------------------------

\* C1: at most one check cycle (one HTTP request) is in flight at any time,
\* also when stop() and then start() are called while a check is awaiting
\* its response.
C1_OneCheckInFlight == Cardinality(Requests) <= 1

\* C2: in every reachable state at most one next-check timer is armed and
\* not yet fired or cancelled.
C2_OneTimerPending == Cardinality(Pending) <= 1

\* C3: previousSoldCount changes if and only if a check cycle completes
\* without error: a step that ends a cycle whose fetch, parse and query
\* succeed stores that cycle's metric, and every other step (a failing
\* cycle, start(), stop(), any other event) leaves it as it is.
C3_StoredOnlyOnSuccess ==
  [][IF Succeeds(lastOp')
     THEN previousSoldCount' = SoldSeats(lastOp'.body)
     ELSE previousSoldCount' = previousSoldCount]_vars

C3_FailureKeepsMetric ==
  /\ Fails(lastOp)
  /\ lastOp.op = "end"
  /\ previousSoldCount = MaxSeats
  /\ everFired

\* C4: a step that ends a cycle by a failure writes one error line, ends
\* the cycle (checkSoldSeats resolves), leaves the process alive and, if
\* the monitor is running, arms the chain's next timer and stores its
\* handle, as a successful cycle does; if it is not running, no timer is
\* armed.
C4_FailureIsolated ==
  [][Fails(lastOp') =>
       LET c == lastOp'.c
       IN /\ exitCode' = null
          /\ Len(out') = 1 /\ out'[1].kind = "error"
          /\ c \notin InFlight'
          /\ IF isRunning
             THEN /\ chain'[c] = "timer"
                  /\ timeoutId' = c
                  /\ isRunning'
             ELSE /\ chain'[c] = "free"
                  /\ timeoutId' = timeoutId
          /\ \A d \in Chains \ {c} : chain'[d] = chain[d]]_vars

C4_FailedCycleRescheduled ==
  /\ Fails(lastOp)
  /\ isRunning
  /\ everFired
  /\ chain[lastOp.c] = "timer"
  /\ timeoutId = lastOp.c

\* C5: in a run in which stop() is never called, no termination signal
\* arrives and every request resolves (none is cut off before its end),
\* once the monitor runs a new check cycle begins infinitely often, through
\* successful and failed cycles alike.
C5_LoopNeverStops ==
  (/\ <>isRunning
   /\ [](lastOp.op \notin {"stop", "signal"})
   /\ [](\A c \in Chains : chain[c] # "aborted"))
    => []<><<\E c \in Chains : TimerFires(c)>>_vars

C5_CheckAfterFailedCycle ==
  /\ lastOp.op = "timer"
  /\ isRunning
  /\ skipped = "pending"
  /\ previousSoldCount # null
  /\ Cardinality(Requests) = 1 /\ Pending = {}

\* C6: after a stop() called when no scheduled timer had yet fired, no
\* check cycle begins unless start() is called again.
C6_NoCheckAfterEarlyStop == cleanStop => lastOp.op # "timer"

\* C7: start() on a running monitor writes the notice and changes nothing
\* else: no check begins, no timer is armed, isRunning, timeoutId and
\* previousSoldCount stay; and isRunning becomes true only in a start()
\* made while not running.
C7_StartWhileRunning ==
  [][/\ (lastOp'.op = "start" /\ isRunning) =>
          /\ UNCHANGED progVars
          /\ out' = <<Line("already")>>
     /\ (~isRunning /\ isRunning') => lastOp'.op = "start"]_vars

C7_SecondStartIgnored ==
  /\ lastOp.op = "start"
  /\ out = <<Line("already")>>
  /\ isRunning
  /\ Requests # {}

\* C8: stop() on a monitor that is not running changes no state and writes
\* no notice; after any stop() the monitor is not running, so of
\* consecutive stop() calls only the first can write the shutdown notice
\* and the later ones change nothing.
C8_StopIdempotent ==
  [][/\ (lastOp'.op = "stop" /\ ~isRunning) =>
          /\ UNCHANGED progVars
          /\ out' = <<>>
     /\ lastOp'.op = "stop" => ~isRunning'
     /\ (lastOp.op = "stop" /\ lastOp'.op = "stop") =>
          /\ UNCHANGED progVars
          /\ out' = <<>>]_vars

C8_SecondStopSilent ==
  /\ lastOp.op = "stop"
  /\ out = <<>>
  /\ ~isRunning
  /\ Requests # {}

\* C9: for stored metric a and the metric b of a successful cycle, the
\* annotation of the line written is "(+N)" with N = b-a when b > a, "(N)"
\* with the negative number N = b-a when b < a, "(no change)" when b = a.
C9_DeltaAnnotation ==
  [][(Succeeds(lastOp') /\ previousSoldCount # null) =>
       LET a == previousSoldCount
           b == SoldSeats(lastOp'.body)
           t == out'[1].delta
       IN /\ Len(out') = 1 /\ out'[1].kind = "sold" /\ out'[1].count = b
          /\ b > a => /\ t[1] = "(" /\ t[2] = "+" /\ t[Len(t)] = ")"
                      /\ Decimal(SubSeq(t, 3, Len(t) - 1)) = b - a
          /\ b < a => /\ t[1] = "(" /\ t[2] = "-" /\ t[Len(t)] = ")"
                      /\ Decimal(SubSeq(t, 3, Len(t) - 1)) = a - b
          /\ b = a => t = <<"(", "n", "o", " ", "c", "h", "a", "n", "g", "e", ")">>]_vars

C9_TwoDigitDrop ==
  /\ Succeeds(lastOp)
  /\ previousSoldCount = 0
  /\ out = <<SoldLine(0, <<"(", "-", "1", "1", ")">>)>>

\* C10: the delta written by a successful cycle is its metric minus the
\* metric of the most recent successful cycle before it, whether or not
\* failed cycles lie between the two.
C10_DeltaSkipsFailures ==
  [][(Succeeds(lastOp') /\ lastSold # null) =>
       /\ Len(out') = 1 /\ out'[1].kind = "sold"
       /\ IsAnnotation(out'[1].delta, SoldSeats(lastOp'.body) - lastSold)]_vars

C10_DeltaAfterFailure ==
  /\ Succeeds(lastOp)
  /\ skipped = "yes"
  /\ out = <<SoldLine(1, <<"(", "+", "1", ")">>)>>

\* The event ends a check cycle.
Settles(e) == e.op \in {"end", "error", "timeout"}

\* C11: the first successful cycle writes its line without a delta
\* annotation, whatever failed before it, and every later successful cycle
\* writes one.
C11_FirstLineHasNoDelta ==
  [][Succeeds(lastOp') =>
       /\ Len(out') = 1 /\ out'[1].kind = "sold"
       /\ (lastSold = null) <=> (out'[1].delta = <<>>)]_vars

C11_FirstSuccessAfterFailure ==
  /\ Succeeds(lastOp)
  /\ skipped = "yes"
  /\ out = <<SoldLine(1, <<>>)>>

\* C12: a cycle that resolves, by success or failure, while the monitor is
\* not running (stop() came while it was in flight, no start() since) arms
\* no timer: its chain ends and timeoutId and the other timers stay.
C12_NoTimerAfterStop ==
  [][(Settles(lastOp') /\ ~isRunning) =>
       /\ lastOp'.c \notin InFlight' \cup Pending'
       /\ Pending' = Pending
       /\ timeoutId' = timeoutId]_vars

C12_ResolvedAfterStop ==
  /\ Succeeds(lastOp)
  /\ ~isRunning
  /\ out = <<SoldLine(1, <<>>)>>
  /\ InFlight = {} /\ Pending = {}

\* The flags of the command line, as the usage text of lines 147-167 names
\* them, and the texts the spec takes for a number of minutes.
HelpFlags == {<<"-", "-", "h", "e", "l", "p">>, <<"-", "h">>}
IntervalFlags == {<<"-", "-", "i", "n", "t", "e", "r", "v", "a", "l">>, <<"-", "i">>}

MainRan == lastOp.op # "boot"
HasHelp(args) == \E i \in DOMAIN args : args[i] \in HelpFlags

RECURSIVE ScannedFrom(_, _)
\* The positions from i on that a positional scan reads as options: an
\* --interval/-i takes the argument after it as its value.
ScannedFrom(args, i) ==
  IF i > Len(args) THEN {}
  ELSE {i} \cup ScannedFrom(args, IF args[i] \in IntervalFlags THEN i + 2 ELSE i + 1)

\* t is a decimal numeral: an optional sign, digits, at most one point.
IsNumeral(t) ==
  LET body == IF t # <<>> /\ t[1] \in {"+", "-"} THEN Tail(t) ELSE t
  IN /\ \E i \in DOMAIN body : DigitValue(body[i]) >= 0
     /\ \A i \in DOMAIN body : DigitValue(body[i]) >= 0 \/ body[i] = "."
     /\ Cardinality({i \in DOMAIN body : body[i] = "."}) <= 1

\* t is a numeral of a number greater than zero.
IsPositiveNumeral(t) ==
  /\ IsNumeral(t)
  /\ t[1] # "-"
  /\ \E i \in DOMAIN t : DigitValue(t[i]) > 0

\* t is white space only.
IsBlank(t) == t # <<>> /\ \A i \in DOMAIN t : t[i] = " "

\* The --interval/-i read at position i has a value that is missing,
\* non-numeric, zero or negative.
InvalidIntervalAt(args, i) ==
  /\ args[i] \in IntervalFlags
  /\ i + 1 > Len(args) \/ ~IsPositiveNumeral(args[i + 1])

\* C13: for every argument list (without a help flag, which is C14's
\* case) main either exits with status 1 before a monitor is created, or
\* the monitor is created with a positive number of minutes and a wait of
\* minutes * 60000 ms; an --interval/-i value that is missing, non-numeric,
\* zero or negative leads to exit 1; no arguments give 5 minutes.
C13_IntervalContract ==
  (MainRan /\ ~HasHelp(argv)) =>
    /\ IF monitor
       THEN /\ ~intervalMinutes.nan /\ intervalMinutes.num > 0
            /\ ~intervalMs.nan
            /\ intervalMs.num * intervalMinutes.den
                 = intervalMinutes.num * 60000 * intervalMs.den
       ELSE exitCode = 1
    /\ (\E i \in ScannedFrom(argv, 1) : InvalidIntervalAt(argv, i))
         => ~monitor /\ exitCode = 1
    /\ argv = <<>> => monitor /\ intervalMinutes.num = 5 * intervalMinutes.den

\* C14 as claimed: whenever --help or -h is among the arguments, wherever
\* it stands, the usage text is printed and the process exits with status 0
\* without a monitor, a check or a request.
C14_HelpAnywhereExitsZero ==
  (MainRan /\ HasHelp(argv)) =>
    /\ exitCode = 0
    /\ \E i \in DOMAIN out : out[i].kind = "usage"
    /\ ~monitor /\ ~isRunning /\ InFlight = {} /\ Pending = {}

\* The scan reaches a help flag: it stands at a position read as an option
\* and every --interval/-i read before it has a value that parseArguments
\* accepts (a positive numeral or, by the conversions of lines 131 and
\* 135, white space).
HelpReached(args) ==
  \E k \in ScannedFrom(args, 1) :
    /\ args[k] \in HelpFlags
    /\ \A i \in ScannedFrom(args, 1) :
         (i < k /\ args[i] \in IntervalFlags)
           => IsPositiveNumeral(args[i + 1]) \/ IsBlank(args[i + 1])

\* C14, amended: an invocation with --help or -h among its arguments never
\* creates a monitor, starts a check or opens a request; it prints the usage
\* text and exits with status 0 exactly when the left-to-right scan reaches
\* a help flag, and otherwise (the flag is taken as the value of an
\* --interval/-i, or an earlier --interval/-i value is rejected) it prints
\* no usage text and exits with status 1.
C14_HelpExitsWhenReached ==
  (MainRan /\ HasHelp(argv)) =>
    /\ ~monitor /\ ~isRunning /\ InFlight = {} /\ Pending = {}
    /\ previousSoldCount = null
    /\ IF HelpReached(argv)
       THEN exitCode = 0 /\ out = <<Line("usage")>>
       ELSE exitCode = 1 /\ \A i \in DOMAIN out : out[i].kind # "usage"

\* main has handled a help flag that is not the first argument
C14_HelpAsLaterArgument ==
  /\ MainRan
  /\ Len(argv) >= 2
  /\ argv[1] \notin HelpFlags
  /\ argv[Len(argv)] \in HelpFlags
  /\ exitCode = 0
  /\ out = <<Line("usage")>>

\* C15: a termination signal, at any point of the monitor's life, runs
\* stop() (a running monitor is marked stopped and writes the shutdown
\* notice) and ends the process with status 0; nothing runs after the exit,
\* so no check cycle begins.
C15_SignalStopsAndExits ==
  [][/\ lastOp'.op = "signal" =>
          /\ exitCode' = 0
          /\ ~isRunning' /\ Pending' = {} /\ Requests' = {}
          /\ out' = IF isRunning THEN <<Line("stopped")>> ELSE <<>>
     /\ exitCode = null]_vars

C15_SignalDuringLaterCycle ==
  /\ lastOp.op = "signal"
  /\ exitCode = 0
  /\ out = <<Line("stopped")>>
  /\ everFired /\ lastSold # null

\* C16: a check cycle gets its outcome in the one step that resolves it:
\* that step writes exactly one line, a 'Sold seats' line or an error line,
\* and closes the cycle's request, so it cannot resolve again; no other
\* step, a later event of the same request included, writes such a line.
C16_OneOutcomePerCycle ==
  [][LET outcomes == {i \in DOMAIN out' : out'[i].kind \in {"sold", "error"}}
     IN IF Settles(lastOp')
        THEN /\ Len(out') = 1 /\ Cardinality(outcomes) = 1
             /\ lastOp'.c \in Requests /\ lastOp'.c \notin Requests'
        ELSE outcomes = {}]_vars

C16_LateErrorIgnored ==
  /\ lastOp.op = "late"
  /\ out = <<>>
  /\ Pending # {}
  /\ skipped = "pending"

\* C17: every check cycle that starts eventually resolves, as a success or
\* a handled failure.
C17_EveryCycleResolves ==
  \A c \in Chains : (c \in InFlight) ~> (c \notin InFlight)

\* C18: in every reachable state in which isRunning is false, no timer is
\* pending.
C18_NoTimerWhenStopped == ~isRunning => Pending = {}

\* C19: in every reachable state, no timer is pending while a check cycle
\* is in flight.
C19_NoTimerDuringCheck == Requests = {} \/ Pending = {}

\* C20: in a run in which the monitor stays stopped from some point on,
\* from some point on no timer is pending and no request is open, and no
\* step begins a check, writes a line or changes previousSoldCount.
C20_QuiescentAfterStop ==
  <>[](~isRunning) =>
    /\ <>[](Pending = {} /\ Requests = {})
    /\ <>[][/\ lastOp'.op \notin {"timer", "start"}
            /\ out' = <<>>
            /\ previousSoldCount' = previousSoldCount]_vars

C20_QuietAfterLastCycle ==
  /\ Settles(lastOp)
  /\ ~isRunning
  /\ everFired
  /\ timeoutId = null
  /\ InFlight = {} /\ Pending = {}

=============================================================================
